---- MODULE Spec2Model ----
(***************************************************************************)
(* A model of scripts/fisher_iris_visualization.py: the reducer PCA, the   *)
(* fallback path of load_iris (the except ImportError branch) and           *)
(* create_scatter.                                                          *)
(*                                                                          *)
(* Numbers.  The arrays hold floats in the code; the model computes with    *)
(* exact rationals <<numerator, denominator>> in lowest terms, so rounding  *)
(* is not modelled.                                                         *)
(*                                                                          *)
(* Library calls are modelled by what they do:                              *)
(*   np.genfromtxt  raises ValueError when the lines do not all have the    *)
(*                  same number of fields, and squeezes a one-line file to  *)
(*                  a 1-d array;                                            *)
(*   np.cov         squeezes its result, so one column gives a 0-d array;   *)
(*   np.linalg.eigh raises LinAlgError on an array of fewer than two        *)
(*                  dimensions; what it returns otherwise is a function of  *)
(*                  its argument that the model does not compute: the       *)
(*                  first call on a matrix draws the eigenvalues from       *)
(*                  EigVals and the eigenvector matrix from Bases(D), in    *)
(*                  any order, and later calls on the same matrix return    *)
(*                  the same answer (variable solver);                      *)
(*   np.argsort     sorts ascending, ties in either order.                  *)
(*                                                                          *)
(* Matrices handed to PCA have at least two rows: with a single row np.cov  *)
(* divides by zero and what eigh makes of the NaNs is not modelled.         *)
(* Definitions commented "a plausible bug" are variants of the definition   *)
(* that follows them, used to see that a property depends on it.            *)
(***************************************************************************)
EXTENDS Integers, Sequences, FiniteSets, TLC

VARIABLES
    pc,        \* where the modelled call stands
    exc,       \* the exception that ended it, or "none"
    file,      \* data/iris/iris.data: a sequence of lines
    iris_data, \* load_iris: what genfromtxt returned
    X,         \* load_iris: the local X
    y,         \* load_iris: the target vector (np.ndarray, uninitialised)
    labels,    \* load_iris: the list of class names
    idx,       \* load_iris: the counter idx
    i,         \* load_iris: rows the loop has handled
    ret,       \* load_iris: the returned triple
    data,      \* the array object handed to PCA
    R,         \* PCA: the covariance matrix R
    kreq,      \* PCA: num_components
    out,       \* PCA: what the last call produced
    first,     \* PCA: what the call before the last one produced
    solver,    \* np.linalg.eigh as a function: matrix -> answer so far
    sy,        \* create_scatter: the argument y
    bm_list,   \* create_scatter: per bmesh, the points it received
    objects    \* create_scatter: the returned list

vars == <<pc, exc, file, iris_data, X, y, labels, idx, i, ret,
          data, R, kreq, out, first, solver, sy, bm_list, objects>>

loadVars == <<file, iris_data, X, y, labels, idx, i, ret>>
pcaVars == <<kreq, out, first>>
scatterVars == <<sy, bm_list, objects>>

----------------------------------------------------------------------------
(* Bounds of the model *)

MaxN == 3        \* rows of a matrix handed to PCA directly
MaxD == 3        \* columns of a matrix handed to PCA directly
MaxEig == 2      \* eigenvalues come from 1..MaxEig
MaxRows == 3     \* lines of the dataset file
MaxPoints == 3   \* points handed to create_scatter with arbitrary labels
MaxLabel == 3    \* label values handed to create_scatter: 0..MaxLabel
MaxLong == 8     \* points handed to create_scatter with labels dealt in turn

(* Program constants *)

NumFeatures == 4     \* iris_data[:, :4]
LabelColumn == 4     \* iris_data[:, 4] (0-based)
LoadComponents == 3  \* PCA(X, 3)
NumColors == 6       \* len(colors)

----------------------------------------------------------------------------
(* Exact arithmetic on <<numerator, denominator>> *)

Abs(n) == IF n < 0 THEN 0 - n ELSE n

Min(a, b) == IF a < b THEN a ELSE b

Max(a, b) == IF a > b THEN a ELSE b

RECURSIVE GCD(_, _)
GCD(a, b) == IF b = 0 THEN a ELSE GCD(b, a % b)

Frac(n, d) ==
    LET g == GCD(Abs(n), Abs(d))
        s == IF d < 0 THEN 0 - 1 ELSE 1
    IN  <<(s * n) \div g, (s * d) \div g>>

FInt(n) == <<n, 1>>

FAdd(a, b) == Frac(a[1] * b[2] + b[1] * a[2], a[2] * b[2])

FSub(a, b) == Frac(a[1] * b[2] - b[1] * a[2], a[2] * b[2])

FMul(a, b) == Frac(a[1] * b[1], a[2] * b[2])

FDivInt(a, n) == Frac(a[1], a[2] * n)

RECURSIVE FSum(_, _)
FSum(f, n) == IF n = 0 THEN FInt(0) ELSE FAdd(FSum(f, n - 1), f[n])

----------------------------------------------------------------------------
(* Matrices: a sequence of rows, each a sequence of entries *)

\* an array holds its values: the function is laid out as a tuple
Stored(f) == f \o <<>>

NRows(M) == Len(M)

NCols(M) == IF Len(M) = 0 THEN 0 ELSE Len(M[1])

Column(M, j) == Stored([r \in 1..NRows(M) |-> M[r][j]])

\* a plausible bug: data.sum(axis=0) is subtracted
ColSums(M) ==
    Stored([j \in 1..NCols(M) |-> FSum(Column(M, j), NRows(M))])

\* data.mean(axis=0)
ColMeans(M) ==
    Stored([j \in 1..NCols(M) |-> FDivInt(FSum(Column(M, j), NRows(M)), NRows(M))])

\* data - data.mean(axis=0)
Center(M) ==
    LET mean == ColMeans(M)
    IN  Stored([r \in 1..NRows(M) |->
            Stored([j \in 1..NCols(M) |-> FSub(M[r][j], mean[j])])])

\* a plausible bug: the mean is subtracted from a copy, the array keeps its values
CenterCopy(M) == M

\* data -= data.mean(axis=0): the values the caller's array holds afterwards
CenteredInPlace(M) == Center(M)

\* np.cov(data, rowvar=False): columns are variables; the result is squeezed
np_cov(M) ==
    LET C == Center(M)
        N == NRows(M)
        D == NCols(M)
        c == Stored([a \in 1..D |-> Stored([b \in 1..D |->
                FDivInt(FSum(Stored([r \in 1..N |-> FMul(C[r][a], C[r][b])]), N), N - 1)])])
    IN  [ndim |-> IF D = 1 THEN 0 ELSE 2, val |-> c]

\* The values eigh may return eigenvalues from
EigVals == 1..MaxEig

\* Eigenvector matrices of the model: the columns of the identity, as they
\* are or rotated by one place
Bases(D) ==
    { [r \in 1..D |-> [c \in 1..D |-> IF ((c + s - 1) % D) + 1 = r THEN 1 ELSE 0]] :
        s \in 0..Min(D - 1, 1) }

HasTies(V) == \E a, b \in 1..Len(V) : a # b /\ V[a] = V[b]

\* What eigh and argsort may deliver for a DxD matrix: the eigenvalues in any
\* order, the eigenvectors, and which way argsort orders equal eigenvalues
SolverOutputs(D) ==
    { s \in [V0 : [1..D -> EigVals], E0 : Bases(D), stable : BOOLEAN] :
        s.stable \/ HasTies(s.V0) }

RECURSIVE ArgsortFrom(_, _, _)
ArgsortFrom(V, stable, S) ==
    IF S = {} THEN <<>>
    ELSE LET m == CHOOSE a \in S : \A b \in S \ {a} :
                    \/ V[a] < V[b]
                    \/ V[a] = V[b] /\ (IF stable THEN a < b ELSE a > b)
         IN  <<m>> \o ArgsortFrom(V, stable, S \ {m})

\* np.argsort(V): the permutation that sorts V ascending (1-based)
argsort(V, stable) == ArgsortFrom(V, stable, 1..Len(V))

\* np.argsort(V)[::-1]
SortIndex(V, stable) ==
    LET p == argsort(V, stable)
        D == Len(V)
    IN  Stored([j \in 1..D |-> p[D + 1 - j]])

\* E[:, index]
TakeColumns(E, index) ==
    Stored([r \in 1..Len(E) |-> Stored([c \in 1..Len(index) |-> E[r][index[c]]])])

\* V[index]
TakeEntries(V, index) == Stored([c \in 1..Len(index) |-> V[index[c]]])

\* a plausible bug: the eigenvalues are left in the solver's order
KeepEntries(V, index) == V

\* V = V[idx] of line 20
SortedEigenvalues(V, index) == TakeEntries(V, index)

\* the stop of the Python slice [:k] on a dimension of length D
SliceStop(k, D) == IF k < 0 THEN Max(D + k, 0) ELSE Min(k, D)

\* E[:, :num_components]
FirstColumns(E, k) ==
    Stored([r \in 1..Len(E) |-> SubSeq(E[r], 1, SliceStop(k, NCols(E)))])

\* np.dot(E.T, data.T).T
Project(E, M) ==
    Stored([r \in 1..NRows(M) |->
        Stored([c \in 1..NCols(E) |->
            FSum(Stored([j \in 1..NCols(M) |-> FMul(M[r][j], FInt(E[j][c]))]), NCols(M))])])

NoResult ==
    [status |-> "none", exc |-> "none", proj |-> <<>>, V |-> <<>>, E |-> <<>>,
     V0 |-> <<>>, E0 |-> <<>>, index |-> <<>>]

\* Lines 13-24 of PCA on the centered array, given what the solver delivers
Reduce(work, cov, k, sol) ==
    IF cov.ndim < 2
    THEN [NoResult EXCEPT !.status = "raised", !.exc = "LinAlgError"]
    ELSE LET index == SortIndex(sol.V0, sol.stable)
             Es == TakeColumns(sol.E0, index)
             Vs == SortedEigenvalues(sol.V0, index)
             Ek == FirstColumns(Es, k)
         IN  [status |-> "returned", exc |-> "none",
              proj |-> Project(Ek, work), V |-> Vs, E |-> Ek,
              V0 |-> sol.V0, E0 |-> sol.E0, index |-> index]

\* The answers eigh may give for R: the one it gave before, or any
Answers(cov) ==
    IF cov.ndim < 2 THEN {[V0 |-> <<>>, E0 |-> <<>>, stable |-> TRUE]}
    ELSE IF cov.val \in DOMAIN solver THEN {solver[cov.val]}
    ELSE SolverOutputs(Len(cov.val))

Remember(cov, sol) ==
    IF cov.ndim < 2 THEN solver
    ELSE [m \in (DOMAIN solver) \cup {cov.val} |->
            IF m = cov.val THEN sol ELSE solver[m]]

NoCov == [ndim |-> 0, val |-> <<>>]

NoSolver == [m \in {} |-> 0]

----------------------------------------------------------------------------
(* Inputs *)

\* Feature rows of the model (sepal/petal measures, rounded)
SampleRows == << <<5, 3, 1, 0>>, <<7, 3, 5, 1>> >>

ToFloats(row, D) == [j \in 1..D |-> FInt(row[j])]

\* The NxD matrices a caller hands to PCA directly: N of the feature rows,
\* cut to D columns (the order of the rows plays no part in PCA, so each
\* choice of rows is taken in one order)
Matrices ==
    UNION { { [r \in 1..N |-> ToFloats(SampleRows[pick[r]], D)] :
                pick \in { q \in [1..N -> 1..Len(SampleRows)] :
                             \A r \in 1..(N - 1) : q[r] <= q[r + 1] } } :
            <<N, D>> \in (2..MaxN) \X (1..MaxD) }

----------------------------------------------------------------------------
\* PCA(data, num_components): lines 9-24 on the array the caller passed
PCA(k) ==
    /\ data' = CenteredInPlace(data)
    /\ R' = np_cov(data')
    /\ \E sol \in Answers(R') :
        /\ out' = Reduce(data', R', k, sol)
        /\ solver' = Remember(R', sol)
    /\ exc' = out'.exc

----------------------------------------------------------------------------
(* The dataset file and the fallback path of load_iris *)

\* Label fields, as sequences of characters
IrisSetosa == <<"x", "-", "s">>
IrisVersicolor == <<"x", "-", "v">>
IrisTwoHyphens == <<"x", "-", "s", "-", "v">>
IrisNoHyphen == <<"x", "s">>

\* The lines a file is made of: the four numeric fields, then what follows them
Lines ==
    { [feat |-> SampleRows[1], rest |-> <<IrisSetosa>>],
      [feat |-> SampleRows[2], rest |-> <<IrisVersicolor>>],
      [feat |-> SampleRows[2], rest |-> <<IrisTwoHyphens>>],
      [feat |-> SampleRows[1], rest |-> <<IrisNoHyphen>>],
      [feat |-> SampleRows[1], rest |-> <<>>],
      [feat |-> SampleRows[2], rest |-> <<IrisVersicolor, IrisNoHyphen>>] }

Files == UNION { [1..n -> Lines] : n \in 1..MaxRows }

NumFields(line) == Len(line.feat) + Len(line.rest)

\* np.genfromtxt(path, dtype='str', delimiter=','): lines of unequal length
\* are an error; a single line comes back as a 1-d array
genfromtxt(f) ==
    IF \E a, b \in 1..Len(f) : NumFields(f[a]) # NumFields(f[b])
    THEN [status |-> "raised", ndim |-> 0, ncols |-> 0, rows |-> <<>>]
    ELSE [status |-> "returned",
          ndim |-> IF Len(f) = 1 THEN 1 ELSE 2,
          ncols |-> NumFields(f[1]),
          rows |-> f]

\* iris_data[:, :4].astype(dtype=float)
FeatureMatrix(arr) ==
    [r \in 1..Len(arr.rows) |-> ToFloats(arr.rows[r].feat, NumFeatures)]

\* iris_data[:, 4][r] (r counted from 1)
LabelField(arr, r) == arr.rows[r].rest[LabelColumn - NumFeatures + 1]

Find(s, ch) ==
    IF \E p \in 1..Len(s) : s[p] = ch
    THEN CHOOSE p \in 1..Len(s) : s[p] = ch /\ \A q \in 1..(p - 1) : s[q] # ch
    ELSE 0

\* str.split(sep): the pieces between the separators
RECURSIVE split(_, _)
split(s, sep) ==
    LET p == Find(s, sep)
    IN  IF p = 0 THEN <<s>>
        ELSE <<SubSeq(s, 1, p - 1)>> \o split(SubSeq(s, p + 1, Len(s)), sep)

Contains(list, e) == \E p \in 1..Len(list) : list[p] = e

\* a plausible bug: the counter itself is stored
TargetValueOffByOne(n) == n

\* y[i] = idx - 1
TargetValue(n) == n - 1

Uninitialised == "uninitialised"

InitLoad ==
    /\ pc = "start"
    /\ exc = "none"
    /\ file \in Files
    /\ iris_data = <<>> /\ X = <<>> /\ y = <<>>
    /\ labels = <<>> /\ idx = 0 /\ i = 0 /\ ret = <<>>
    /\ data = <<>>
    /\ R = NoCov
    /\ kreq = 0
    /\ out = NoResult
    /\ first = NoResult
    /\ solver = NoSolver
    /\ sy = <<>> /\ bm_list = <<>> /\ objects = <<>>

Raise(e) ==
    /\ pc' = "raised"
    /\ exc' = e

\* Lines 43-50: the file is read, X and y are made, the label column is taken
ReadFile ==
    /\ pc = "start"
    /\ LET arr == genfromtxt(file)
       IN  IF arr.status = "raised"
           THEN /\ Raise("ValueError")
                /\ UNCHANGED <<iris_data, X, y, labels, idx, i, data>>
           ELSE /\ iris_data' = arr
                /\ IF arr.ndim < 2
                   THEN /\ Raise("IndexError")
                        /\ UNCHANGED <<X, y, labels, idx, i, data>>
                   ELSE /\ data' = FeatureMatrix(arr)
                        /\ X' = data'
                        /\ y' = [r \in 1..Len(arr.rows) |-> Uninitialised]
                        /\ labels' = <<>>
                        /\ idx' = 0
                        /\ i' = 0
                        /\ IF arr.ncols <= LabelColumn
                           THEN Raise("IndexError")
                           ELSE pc' = "loop" /\ exc' = exc
    /\ UNCHANGED <<file, ret, R, pcaVars, solver, scatterVars>>

\* Lines 50-55: one iteration of the loop over the label column
LoopIter ==
    /\ pc = "loop"
    /\ i < Len(iris_data.rows)
    /\ LET parts == split(LabelField(iris_data, i + 1), "-")
       IN  IF Len(parts) < 2
           THEN /\ Raise("IndexError")
                /\ UNCHANGED <<labels, idx, y, i>>
           ELSE LET label == parts[2]
                IN  /\ labels' = IF Contains(labels, label) THEN labels
                                 ELSE Append(labels, label)
                    /\ idx' = IF Contains(labels, label) THEN idx ELSE idx + 1
                    /\ y' = [y EXCEPT ![i + 1] = TargetValue(idx')]
                    /\ i' = i + 1
                    /\ UNCHANGED <<pc, exc>>
    /\ UNCHANGED <<file, iris_data, X, ret, data, R, pcaVars, solver, scatterVars>>

\* Lines 58-60: X = PCA(X, 3)[0]; return X, y, labels
ReduceAndReturn ==
    /\ pc = "loop"
    /\ i = Len(iris_data.rows)
    /\ PCA(LoadComponents)
    /\ kreq' = LoadComponents
    /\ IF out'.status = "returned"
       THEN /\ X' = out'.proj
            /\ ret' = <<X', y, labels>>
            /\ pc' = "returned"
       ELSE /\ pc' = "raised"
            /\ UNCHANGED <<X, ret>>
    /\ UNCHANGED <<file, iris_data, y, labels, idx, i, first, scatterVars>>

Next ==
    \/ ReadFile
    \/ LoopIter
    \/ ReduceAndReturn

Spec == InitLoad /\ [][Next]_vars

----------------------------------------------------------------------------
(* PCA called directly, twice in a row on the same array with the same k *)

InitPCA ==
    /\ pc = "fresh"
    /\ exc = "none"
    /\ file = <<>> /\ iris_data = <<>> /\ X = <<>> /\ y = <<>>
    /\ labels = <<>> /\ idx = 0 /\ i = 0 /\ ret = <<>>
    /\ data \in Matrices
    /\ R = NoCov
    /\ kreq = 0
    /\ out = NoResult
    /\ first = NoResult
    /\ solver = NoSolver
    /\ sy = <<>> /\ bm_list = <<>> /\ objects = <<>>

CallPCA(k) ==
    /\ pc = "fresh"
    /\ PCA(k)
    /\ kreq' = k
    /\ first' = first
    /\ pc' = "once"
    /\ UNCHANGED <<loadVars, scatterVars>>

CallPCAAgain ==
    /\ pc = "once"
    /\ PCA(kreq)
    /\ first' = out
    /\ pc' = "twice"
    /\ UNCHANGED <<kreq, loadVars, scatterVars>>

NextPCA ==
    \/ \E k \in 0..(NCols(data) + 1) : CallPCA(k)
    \/ CallPCAAgain

SpecPCA == InitPCA /\ [][NextPCA]_vars

----------------------------------------------------------------------------
(* create_scatter: a bmesh is the set of <<point, primitive>> it received *)

\* set(y)
LabelSet(yv) == { yv[p] : p \in 1..Len(yv) }

\* The order a set of small non-negative ints is iterated in: ascending
RECURSIVE Ascending(_)
Ascending(S) ==
    IF S = {} THEN <<>>
    ELSE LET m == CHOOSE a \in S : \A b \in S : a <= b
         IN  <<m>> \o Ascending(S \ {m})

\* list[j] on a list of length n: the position (from 1), 0 for an IndexError
PyIndex(n, j) ==
    IF 0 <= j /\ j < n THEN j + 1
    ELSE IF j < 0 /\ 0 - n <= j THEN n + j + 1
    ELSE 0

\* a plausible bug: the bmesh is picked by the primitive's kind
MeshPositionByShape(n, label_idx) == PyIndex(n, label_idx % 3)

\* bm_list[label_idx]
MeshPosition(n, label_idx) == PyIndex(n, label_idx)

\* The primitive built for a label: label_idx % 3
ShapeOf(label_idx) ==
    IF label_idx % 3 = 0 THEN "cube"
    ELSE IF label_idx % 3 = 1 THEN "icosphere"
    ELSE "cone"

\* Lines 71-80, from point p on
RECURSIVE FillMeshes(_, _, _)
FillMeshes(yv, bm, p) ==
    IF p > Len(yv) THEN [bm |-> bm, raised |-> FALSE]
    ELSE LET pos == MeshPosition(Len(bm), yv[p])
         IN  IF pos = 0 THEN [bm |-> bm, raised |-> TRUE]
             ELSE FillMeshes(yv,
                    [bm EXCEPT ![pos] = @ \cup {<<p, ShapeOf(yv[p])>>}], p + 1)

\* Lines 82-99, from the c-th pair of zip(label_indices, colors) on
RECURSIVE MakeObjects(_, _, _, _)
MakeObjects(order, bm, c, objs) ==
    IF c > Min(Len(order), NumColors) THEN [objs |-> objs, raised |-> FALSE]
    ELSE LET pos == MeshPosition(Len(bm), order[c])
         IN  IF pos = 0 THEN [objs |-> objs, raised |-> TRUE]
             ELSE MakeObjects(order, bm, c + 1,
                    Append(objs, [label |-> order[c], mesh |-> bm[pos], color |-> c]))

\* Label vectors: every short one, and longer ones dealing m labels in turn
ScatterInputs ==
    UNION { [1..n -> 0..MaxLabel] : n \in 0..MaxPoints }
    \cup { [p \in 1..n |-> (p - 1) % m] : <<n, m>> \in (1..MaxLong) \X (1..MaxLong) }

InitScatter ==
    /\ pc = "call"
    /\ exc = "none"
    /\ file = <<>> /\ iris_data = <<>> /\ X = <<>> /\ y = <<>>
    /\ labels = <<>> /\ idx = 0 /\ i = 0 /\ ret = <<>>
    /\ data = <<>>
    /\ R = NoCov
    /\ kreq = 0
    /\ out = NoResult
    /\ first = NoResult
    /\ solver = NoSolver
    /\ sy \in ScatterInputs
    /\ bm_list = <<>>
    /\ objects = <<>>

\* create_scatter(X, y), lines 63-101
create_scatter ==
    /\ pc = "call"
    /\ LET label_indices == LabelSet(sy)
           empty == [b \in 1..Cardinality(label_indices) |-> {}]
           filled == FillMeshes(sy, empty, 1)
           made == MakeObjects(Ascending(label_indices), filled.bm, 1, <<>>)
       IN  IF filled.raised
           THEN /\ bm_list' = filled.bm
                /\ objects' = <<>>
                /\ Raise("IndexError")
           ELSE /\ bm_list' = filled.bm
                /\ objects' = made.objs
                /\ IF made.raised THEN Raise("IndexError")
                   ELSE pc' = "returned" /\ exc' = exc
    /\ UNCHANGED <<loadVars, data, R, pcaVars, solver, sy>>

NextScatter == create_scatter

SpecScatter == InitScatter /\ [][NextScatter]_vars

----------------------------------------------------------------------------
(* Properties *)

Finished == pc \in {"once", "twice"}

\* The class name the code derives for row r of the array
ClassOfRow(r) == split(LabelField(iris_data, r), "-")[2]

\* Everything that follows the first hyphen of a field
AfterFirstHyphen(s) == SubSeq(s, Find(s, "-") + 1, Len(s))

\* C1: in the fallback path of load_iris, y[r] is the position in labels of
\* row r's class name, for every order of the rows, so two rows share a
\* label exactly when they share a class name.
C1_LabelIsClassPosition ==
    pc = "returned" =>
        /\ \A r \in 1..Len(y) : labels[y[r] + 1] = ClassOfRow(r)
        /\ \A r, q \in 1..Len(y) : (y[r] = y[q]) <=> (ClassOfRow(r) = ClassOfRow(q))

\* C2: the class name of a row is the whole of its label field after the
\* first hyphen, so every handled row's remainder is one of the classes.
C2_ClassIsRestOfField ==
    pc \in {"loop", "returned"} =>
        \A r \in 1..i : Contains(labels, AfterFirstHyphen(LabelField(iris_data, r)))

\* A line of the dataset format: four numbers, then one label field with a hyphen
WellFormedLine(line) ==
    /\ NumFields(line) = NumFeatures + 1
    /\ Find(line.rest[1], "-") # 0

\* C3: a file with a line of the wrong number of columns, or with a label
\* field that has no hyphen, never makes load_iris return a triple.
C3_MalformedNeverReturns ==
    pc = "returned" => \A r \in 1..Len(file) : WellFormedLine(file[r])

\* C4: a call of PCA with k outside 1..D, in the case the claim singles out,
\* k > D, raises and returns no result.
C4_BadWidthRaises ==
    (Finished /\ kreq > NCols(data)) => out.status = "raised"

\* C5: for every NxD matrix and every k in 1..D, PCA returns an Nxk
\* projection, a Dxk basis and D eigenvalues.
C5_Shapes ==
    (Finished /\ 1 <= kreq /\ kreq <= NCols(data)) =>
        /\ out.status = "returned"
        /\ Len(out.proj) = NRows(data)
        /\ \A r \in 1..Len(out.proj) : Len(out.proj[r]) = kreq
        /\ Len(out.E) = NCols(data)
        /\ \A r \in 1..Len(out.E) : Len(out.E[r]) = kreq
        /\ Len(out.V) = NCols(data)

\* C6: the eigenvalues PCA returns are in non-increasing order, and one
\* reordering of the solver's pairs gives both the returned eigenvalues and
\* the columns of the returned basis.
C6_SortedAndPaired ==
    out.status = "returned" =>
        LET D == Len(out.V0)
        IN  /\ \A a, b \in 1..Len(out.V) : a < b => out.V[a] >= out.V[b]
            /\ Len(out.V) = D
            /\ \E p \in [1..D -> 1..D] :
                /\ \A j \in 1..D : out.V[j] = out.V0[p[j]]
                /\ \A a, b \in 1..D : a # b => p[a] # p[b]
                /\ \A j \in 1..NCols(out.E) :
                    Column(out.E, j) = Column(out.E0, p[j])

\* C6 witness: three eigenvalues delivered out of order, two of them equal,
\* with a rotated eigenvector matrix and at least two columns kept
C6_Witness ==
    /\ out.status = "returned"
    /\ Len(out.V0) = 3
    /\ out.V0[1] < out.V0[2] /\ out.V0[2] = out.V0[3]
    /\ out.E0[1][1] = 0
    /\ NCols(out.E) = 2

ColumnSumsZero(M) ==
    \A j \in 1..NCols(M) : FSum(Column(M, j), NRows(M)) = FInt(0)

SameShiftPerColumn(A, B) ==
    /\ NRows(A) = NRows(B) /\ NCols(A) = NCols(B)
    /\ \A j \in 1..NCols(A) : \A r, q \in 1..NRows(A) :
        FSub(A[r][j], B[r][j]) = FSub(A[q][j], B[q][j])

\* C8: the step of load_iris that calls PCA leaves in the array it passed the
\* entries minus their column's mean (every column sums to zero and every
\* entry of a column moved by the same amount), and changes neither y nor
\* labels nor anything else load_iris holds but X.
C8_CenteredInPlace ==
    [][(pc = "loop" /\ pc' = "returned") =>
            /\ ColumnSumsZero(data')
            /\ SameShiftPerColumn(data, data')
            /\ y' = y
            /\ labels' = labels
            /\ idx' = idx
            /\ iris_data' = iris_data
            /\ file' = file]_vars

\* C8 witness: load_iris returned, and the array it passed to PCA no longer
\* holds the values read from the file
C8_Witness ==
    /\ pc = "returned"
    /\ Len(labels) = 2
    /\ data # FeatureMatrix(iris_data)
    /\ ColumnSumsZero(data)

\* C9: after every iteration of the loop, and at its end, idx is
\* len(labels), every label assigned so far indexes labels, and every index
\* of labels was assigned to some row.
C9_LoopInvariant ==
    pc \in {"loop", "returned"} =>
        /\ idx = Len(labels)
        /\ \A r \in 1..i : y[r] \in 0..(Len(labels) - 1)
        /\ \A l \in 0..(Len(labels) - 1) : \E r \in 1..i : y[r] = l

\* C9 witness: three rows handled, the third of the first row's class after
\* a row of another class
C9_Witness ==
    /\ pc = "loop"
    /\ i = 3
    /\ Len(labels) = 2
    /\ ClassOfRow(3) = ClassOfRow(1)
    /\ ClassOfRow(2) # ClassOfRow(1)

PointsOf(mesh) == { e[1] : e \in mesh }

OneObjectPerLabel ==
    /\ pc = "returned"
    /\ Len(objects) = Cardinality(LabelSet(sy))
    /\ \A l \in LabelSet(sy) :
        \E c \in 1..Len(objects) :
            /\ objects[c].label = l
            /\ PointsOf(objects[c].mesh) = { p \in 1..Len(sy) : sy[p] = l }
            /\ \A d \in 1..Len(objects) : objects[d].label = l => d = c

\* C10 as stated: for every label vector, create_scatter returns one object
\* per distinct label, made from the mesh that received that label's points.
C10_AnyLabels ==
    pc # "call" => OneObjectPerLabel

\* The distinct labels are 0..m-1 and there are no more of them than colors
ContiguousLabels ==
    LET m == Cardinality(LabelSet(sy))
    IN  LabelSet(sy) = 0..(m - 1) /\ m <= NumColors

\* C10 amended: for every label vector whose distinct labels are exactly
\* 0..m-1 with m at most the number of colors, create_scatter returns one
\* object per distinct label, made from the mesh that received exactly that
\* label's points.
C10_ContiguousLabels ==
    (pc # "call" /\ ContiguousLabels) => OneObjectPerLabel

\* C10 witness: as many labels as colors, dealt in turn over more points
C10_Witness ==
    /\ pc = "returned"
    /\ ContiguousLabels
    /\ Cardinality(LabelSet(sy)) = NumColors
    /\ Len(sy) > NumColors

====
